---- MODULE Spec2Model ----
(***************************************************************************)
(* Swiss Real Estate Dashboard: the data-preparation pipeline of           *)
(* app_snowflake.py (main, preprocess_data, the two locality rankings) and *)
(* of the module-level script app_local.py.                                *)
(*                                                                         *)
(* Prices are exact decimals counted in thousandths (1500 is 1.5): the     *)
(* binary floating point of pandas is abstracted to fixed point, and       *)
(* round(2) is numpy's round-half-to-even on that exact value.             *)
(* A string is a sequence of one-character strings.                        *)
(***************************************************************************)
EXTENDS Integers, Sequences, FiniteSets, TLC

VARIABLES
    variant,          \* which program runs: "snowflake" or "local"
    config,           \* st.secrets["snowflake"]: the set of keys it holds
    pc,               \* position in main() / in the script
    src,              \* the table as the data source delivered it (never written)
    loaded,           \* the DataFrame object returned by read_sql / read_csv
    df,               \* the variable df after the cleaning (result of the filter)
    mean_exp,         \* mean_prices as computed for the most expensive ranking
    top_5_expensive,
    mean_cheap,       \* mean_prices as computed for the cheapest ranking
    top_5_cheap,
    calls,            \* the functions main() has called, in order
    rendered,         \* the charts handed to st.plotly_chart, in order
    errors,           \* number of st.error messages shown
    exc               \* the uncaught exception that ended the run, or "none"

vars == <<variant, config, pc, src, loaded, df, mean_exp, top_5_expensive,
          mean_cheap, top_5_cheap, calls, rendered, errors, exc>>

(***************************************************************************)
(* Bounds of the model.                                                    *)
(***************************************************************************)
MaxRows == 2          \* rows of a freely chosen table
NumLoc == 6           \* localities of a one-row-per-locality table

(***************************************************************************)
(* Cell values: a number, a string, None, or NaN.                          *)
(***************************************************************************)
Num(n) == [k |-> "num", n |-> n, s |-> <<>>]
Str(s) == [k |-> "str", n |-> 0, s |-> s]
None == [k |-> "none", n |-> 0, s |-> <<>>]
NaN == [k |-> "nan", n |-> 0, s |-> <<>>]

(***************************************************************************)
(* pd.to_numeric(..., errors='coerce') on one value.                       *)
(* Strings are over digits, '.', '-', '+' and letters; at most three       *)
(* fractional digits are kept.                                             *)
(***************************************************************************)
Digits == <<"0", "1", "2", "3", "4", "5", "6", "7", "8", "9">>

IsDigit(c) == \E i \in 1..Len(Digits) : Digits[i] = c

DigitVal(c) == (CHOOSE i \in 1..Len(Digits) : Digits[i] = c) - 1

AllDigits(ds) == \A i \in 1..Len(ds) : IsDigit(ds[i])

RECURSIVE IntVal(_)
IntVal(ds) ==
    IF ds = <<>> THEN 0
    ELSE 10 * IntVal(SubSeq(ds, 1, Len(ds) - 1)) + DigitVal(ds[Len(ds)])

DotPos(s) ==
    IF \E i \in 1..Len(s) : s[i] = "."
    THEN CHOOSE i \in 1..Len(s) : s[i] = "." /\ \A j \in 1..(i - 1) : s[j] # "."
    ELSE 0

ParseUnsigned(s) ==
    LET d == DotPos(s)
        ip == IF d = 0 THEN s ELSE SubSeq(s, 1, d - 1)
        fp == IF d = 0 THEN <<>> ELSE SubSeq(s, d + 1, Len(s))
        pad == SubSeq(fp \o <<"0", "0", "0">>, 1, 3)
    IN  IF AllDigits(ip) /\ AllDigits(fp) /\ Len(ip) + Len(fp) >= 1
        THEN Num(IntVal(ip) * 1000 + IntVal(pad))
        ELSE NaN

Negate(c) == IF c.k = "num" THEN Num(0 - c.n) ELSE c

ParseFloat(s) ==
    IF s = <<>> THEN NaN
    ELSE IF s[1] = "-" THEN Negate(ParseUnsigned(Tail(s)))
    ELSE IF s[1] = "+" THEN ParseUnsigned(Tail(s))
    ELSE ParseUnsigned(s)

ToNumeric(c) ==
    CASE c.k = "num" -> c
      [] c.k = "str" -> ParseFloat(c.s)
      [] OTHER -> NaN

(***************************************************************************)
(* round(2): to the nearest hundredth, a half going to the even hundredth. *)
(***************************************************************************)
RoundDiv(a, b) ==
    LET q == a \div b
        r == a % b
    IN  IF 2 * r < b THEN q
        ELSE IF 2 * r > b THEN q + 1
        ELSE IF q % 2 = 0 THEN q ELSE q + 1

Round2(c) == IF c.k = "num" THEN Num(10 * RoundDiv(c.n, 10)) ELSE c

GreaterOrEqualZero(c) == c.k = "num" /\ c.n >= 0

\* one element of the boolean mask  column > 0: False for NaN
GreaterThanZero(c) == c.k = "num" /\ c.n > 0

(***************************************************************************)
(* DataFrames: column names, the row labels (pandas index) and the rows.   *)
(***************************************************************************)
Frame(cols, rows) ==
    [kind |-> "frame", cols |-> cols, index |-> [i \in 1..Len(rows) |-> i], rows |-> rows]

NoFrame == [kind |-> "none", cols |-> <<>>, index |-> <<>>, rows |-> <<>>]

\* the positions of the columns called name (column names may repeat)
ColPositions(t, name) == {i \in 1..Len(t.cols) : t.cols[i] = name}

ColOf(t, name) == CHOOSE i \in ColPositions(t, name) : TRUE

HasColumns(t, names) == \A c \in names : ColPositions(t, c) # {}

\* the mapping given to df.rename(columns=...)
RenameUppercasesAll(c) ==
    CASE c \in {"price", "Price"} -> "PRICE"
      [] c \in {"housetype", "HouseType"} -> "HOUSETYPE"
      [] c \in {"size", "Size"} -> "SIZE"
      [] c \in {"lotsize", "LotSize"} -> "LOTSIZE"
      [] c \in {"balcony", "Balcony"} -> "BALCONY"
      [] c \in {"livingspace", "LivingSpace"} -> "LIVINGSPACE"
      [] c \in {"numberrooms", "NumberRooms"} -> "NUMBERROOMS"
      [] c \in {"yearbuilt", "YearBuilt"} -> "YEARBUILT"
      [] c \in {"locality", "Locality"} -> "LOCALITY"
      [] c \in {"postalcode", "PostalCode"} -> "POSTALCODE"
      [] c = "id" -> "ID"
      [] OTHER -> c

RenameColumn(c) ==
    CASE c = "price" -> "PRICE"
      [] c = "housetype" -> "HOUSETYPE"
      [] c = "size" -> "SIZE"
      [] c = "lotsize" -> "LOTSIZE"
      [] c = "balcony" -> "BALCONY"
      [] c = "livingspace" -> "LIVINGSPACE"
      [] c = "numberrooms" -> "NUMBERROOMS"
      [] c = "yearbuilt" -> "YEARBUILT"
      [] c = "locality" -> "LOCALITY"
      [] c = "postalcode" -> "POSTALCODE"
      [] OTHER -> c

\* df.rename(columns={...}, inplace=True)
Rename(t) == [t EXCEPT !.cols = [i \in 1..Len(t.cols) |-> RenameColumn(t.cols[i])]]

\* df[name] = pd.to_numeric(df[name], errors='coerce').round(2)
CoercePrice(t, name) ==
    LET p == ColOf(t, name)
    IN  [t EXCEPT !.rows = [i \in 1..Len(t.rows) |->
                               [t.rows[i] EXCEPT ![p] = Round2(ToNumeric(t.rows[i][p]))]]]

\* frame[mask]: a new frame of the rows at the positions idx (ascending),
\* row labels kept
SelectRows(t, idx) ==
    [t EXCEPT !.index = [j \in 1..Len(idx) |-> t.index[idx[j]]],
              !.rows = [j \in 1..Len(idx) |-> t.rows[idx[j]]]]

\* the positions where the mask  df[name] > 0  is True
MaskPositions(t, name) ==
    LET p == ColOf(t, name)
    IN  SelectSeq([i \in 1..Len(t.rows) |-> i], LAMBDA i : GreaterThanZero(t.rows[i][p]))

\* df = df[df[name] > 0]
FilterPositive(t, name) == SelectRows(t, MaskPositions(t, name))

\* the filter taken on the coerced value before it is rounded
CleanFilterBeforeRound(t, name) ==
    LET p == ColOf(t, name)
        idx == SelectSeq([i \in 1..Len(t.rows) |-> i],
                         LAMBDA i : GreaterThanZero(ToNumeric(t.rows[i][p])))
    IN  [arg |-> CoercePrice(t, name), ret |-> CoercePrice(SelectRows(t, idx), name)]

\* the filter applied to the caller's frame itself
CleanDropInPlace(t, name) ==
    LET c == CoercePrice(t, name)
    IN  [arg |-> FilterPositive(c, name), ret |-> FilterPositive(c, name)]

\* The two cleaning statements on a frame with exactly one column name:
\* arg is the frame object they were given, as they leave it (the price
\* column is assigned in place, the filter builds a new frame); ret is the
\* new frame.
Clean(t, name) ==
    LET c == CoercePrice(t, name)
    IN  [arg |-> c, ret |-> FilterPositive(c, name)]

\* df[name] of the cleaning statements: a missing column raises KeyError;
\* a repeated name selects a DataFrame, which pd.to_numeric rejects.
CleanOrRaise(t, name) ==
    LET n == Cardinality(ColPositions(t, name))
    IN  IF n = 0 THEN [err |-> "KeyError", arg |-> t, ret |-> NoFrame]
        ELSE IF n > 1 THEN [err |-> "TypeError", arg |-> t, ret |-> NoFrame]
        ELSE [err |-> "none", arg |-> Clean(t, name).arg, ret |-> Clean(t, name).ret]

\* preprocess_data(df)
PreprocessData(t) == CleanOrRaise(Rename(t), "PRICE")

(***************************************************************************)
(* Aggregator: df.groupby(by)[price].mean().dropna().round(2)              *)
(***************************************************************************)
\* the characters of the locality names, in code point order
CharOrder == <<" ", "A", "B", "C", "D", "E", "F", "G", "H", "Z", "a", "b", "z">>

Ord(c) == CHOOSE i \in 1..Len(CharOrder) : CharOrder[i] = c

\* str < str of Python
RECURSIVE StrLess(_, _)
StrLess(a, b) ==
    IF b = <<>> THEN FALSE
    ELSE IF a = <<>> THEN TRUE
    ELSE IF a[1] # b[1] THEN Ord(a[1]) < Ord(b[1])
    ELSE StrLess(Tail(a), Tail(b))

RECURSIVE SortStrings(_)
SortStrings(S) ==
    IF S = {} THEN <<>>
    ELSE LET m == CHOOSE x \in S : \A y \in S \ {x} : StrLess(x, y)
         IN  <<m>> \o SortStrings(S \ {m})

LowerChar(c) ==
    CASE c = "A" -> "a"
      [] c = "B" -> "b"
      [] c = "Z" -> "z"
      [] OTHER -> c

SameGroupIgnoringCase(a, b) ==
    /\ Len(a) = Len(b)
    /\ \A i \in 1..Len(a) : LowerChar(a[i]) = LowerChar(b[i])

\* two key values fall in the same group: exact equality of the strings
SameGroup(a, b) == a = b

RECURSIVE SumSeq(_)
SumSeq(ns) == IF ns = <<>> THEN 0 ELSE Head(ns) + SumSeq(Tail(ns))

\* Series.mean() of one group, NaN skipped: the exact quotient n / d,
\* NaN for a group without a number
GroupMean(cells) ==
    LET nums == SelectSeq(cells, LAMBDA c : c.k = "num")
    IN  IF nums = <<>> THEN [k |-> "nan", n |-> 0, d |-> 1]
        ELSE [k |-> "num", n |-> SumSeq([i \in 1..Len(nums) |-> nums[i].n]), d |-> Len(nums)]

\* groupby(by)[price].mean(): one entry per distinct non-null key, keys
\* sorted (sort=True), rows with a null key left out (dropna=True)
GroupByMean(t, by, price) ==
    LET b == ColOf(t, by)
        p == ColOf(t, price)
        keys == SortStrings({t.rows[i][b].s : i \in {j \in 1..Len(t.rows) : t.rows[j][b].k = "str"}})
        member(key) == SelectSeq([i \in 1..Len(t.rows) |-> i],
                          LAMBDA i : t.rows[i][b].k = "str" /\ SameGroup(t.rows[i][b].s, key))
        group(key) == [j \in 1..Len(member(key)) |-> t.rows[member(key)[j]][p]]
    IN  [g \in 1..Len(keys) |-> [LOCALITY |-> keys[g], PRICE |-> GroupMean(group(keys[g]))]]

\* Series.dropna()
DropNa(ser) == SelectSeq(ser, LAMBDA e : e.PRICE.k = "num")

\* Series.round(2) of the exact quotients; PRICE becomes a number of thousandths
RoundSeries(ser) ==
    [g \in 1..Len(ser) |->
        [LOCALITY |-> ser[g].LOCALITY, PRICE |-> 10 * RoundDiv(ser[g].PRICE.n, 10 * ser[g].PRICE.d)]]

MeanPrices(t, by, price) == RoundSeries(DropNa(GroupByMean(t, by, price)))

\* groupby on a missing column raises KeyError, on a repeated column name
\* ValueError; selecting a missing price column raises KeyError
MeanPricesOrRaise(t, by, price) ==
    IF ColPositions(t, by) = {} THEN [err |-> "KeyError", ret |-> <<>>]
    ELSE IF Cardinality(ColPositions(t, by)) > 1 THEN [err |-> "ValueError", ret |-> <<>>]
    ELSE IF ColPositions(t, price) = {} THEN [err |-> "KeyError", ret |-> <<>>]
    ELSE [err |-> "none", ret |-> MeanPrices(t, by, price)]

(***************************************************************************)
(* Ranker: Series.nlargest(n) / Series.nsmallest(n), keep='first'          *)
(***************************************************************************)
TopN == 5

RemoveAt(s, i) == SubSeq(s, 1, i - 1) \o SubSeq(s, i + 1, Len(s))

NLargestUnsorted(ser, n) == SubSeq(ser, 1, IF n < Len(ser) THEN n ELSE Len(ser))

RECURSIVE NLargestKeepLast(_, _)
NLargestKeepLast(ser, n) ==
    IF n = 0 \/ ser = <<>> THEN <<>>
    ELSE LET i == CHOOSE j \in 1..Len(ser) :
                     /\ \A m \in 1..Len(ser) : ser[m].PRICE <= ser[j].PRICE
                     /\ \A m \in (j + 1)..Len(ser) : ser[m].PRICE < ser[j].PRICE
         IN  <<ser[i]>> \o NLargestKeepLast(RemoveAt(ser, i), n - 1)

\* the n largest values, descending; among equal values the one that
\* comes first in the series is taken first
RECURSIVE NLargest(_, _)
NLargest(ser, n) ==
    IF n = 0 \/ ser = <<>> THEN <<>>
    ELSE LET i == CHOOSE j \in 1..Len(ser) :
                     /\ \A m \in 1..Len(ser) : ser[m].PRICE <= ser[j].PRICE
                     /\ \A m \in 1..(j - 1) : ser[m].PRICE < ser[j].PRICE
         IN  <<ser[i]>> \o NLargest(RemoveAt(ser, i), n - 1)

\* the n smallest values, ascending; among equal values the one that
\* comes first in the series is taken first
RECURSIVE NSmallest(_, _)
NSmallest(ser, n) ==
    IF n = 0 \/ ser = <<>> THEN <<>>
    ELSE LET i == CHOOSE j \in 1..Len(ser) :
                     /\ \A m \in 1..Len(ser) : ser[m].PRICE >= ser[j].PRICE
                     /\ \A m \in 1..(j - 1) : ser[m].PRICE > ser[j].PRICE
         IN  <<ser[i]>> \o NSmallest(RemoveAt(ser, i), n - 1)

(***************************************************************************)
(* The tables a data source may deliver (bounded).                         *)
(***************************************************************************)
PriceNames == {"price", "PRICE", "Price"}
LocalityNames == {"locality", "LOCALITY", "Locality"}
HouseTypeNames == {"housetype", "HOUSETYPE", "HouseType"}

\* price values read from the warehouse: None, "0", "0.01", "1.5", 0.004, 0.125
RichPrices ==
    {None, Str(<<"0">>), Str(<<"0", ".", "0", "1">>), Str(<<"1", ".", "5">>), Num(4), Num(125)}

\* price values read from the csv file: "", "-1", "1.5", 0.125
CsvPrices == {Str(<<>>), Str(<<"-", "1">>), Str(<<"1", ".", "5">>), Num(125)}

\* the values of the tables with an unusual column layout: "1.5", "0", "abc"
FewPrices == {Str(<<"1", ".", "5">>), Str(<<"0">>), Str(<<"a", "b", "c">>)}

RichLocalities == {Str(<<"Z">>), Str(<<"z">>), None}

FewLocalities == {Str(<<"B">>)}

\* the values a column of the given name may hold
CellDomain(c, P, L) ==
    IF c \in PriceNames THEN P
    ELSE IF c \in LocalityNames THEN L
    ELSE IF c \in HouseTypeNames THEN {Str(<<"a">>)}
    ELSE {Num(3000)}

RECURSIVE RowSet(_, _, _)
RowSet(cols, P, L) ==
    IF cols = <<>> THEN {<<>>}
    ELSE {<<c>> \o r : c \in CellDomain(Head(cols), P, L), r \in RowSet(Tail(cols), P, L)}

\* every table with the columns cols and at most n rows
TablesOf(cols, P, L, n) ==
    {Frame(cols, rows) : rows \in UNION {[1..m -> RowSet(cols, P, L)] : m \in 0..n}}

LowerCols == <<"price", "housetype", "livingspace", "numberrooms", "yearbuilt", "locality">>
UpperCols == <<"PRICE", "HOUSETYPE", "LIVINGSPACE", "NUMBERROOMS", "YEARBUILT", "LOCALITY">>
MixedCols == <<"Price", "HouseType", "LivingSpace", "NumberRooms", "YearBuilt", "Locality">>

\* other column layouts: upper and mixed case, all ten recognised columns,
\* a column missing, repeated in another case, or extra
OddSnowflakeLayouts ==
    {UpperCols, MixedCols,
     <<"price", "housetype", "size", "lotsize", "balcony", "livingspace", "numberrooms",
       "yearbuilt", "locality", "postalcode">>,
     <<"housetype", "livingspace", "numberrooms", "yearbuilt", "locality">>,
     <<"price", "PRICE", "housetype", "livingspace", "numberrooms", "yearbuilt", "locality">>,
     <<"id", "price", "housetype", "livingspace", "numberrooms", "yearbuilt", "locality">>,
     <<"price", "livingspace", "numberrooms", "yearbuilt", "locality">>,
     <<"price", "housetype", "numberrooms", "yearbuilt", "locality">>,
     <<"price", "housetype", "livingspace", "numberrooms", "locality">>,
     <<"price", "housetype", "livingspace", "numberrooms", "yearbuilt">>,
     <<"price", "housetype", "livingspace", "numberrooms", "yearbuilt", "locality", "LOCALITY">>}

OddLocalLayouts ==
    {LowerCols,
     <<"HouseType", "LivingSpace", "NumberRooms", "YearBuilt", "Locality">>,
     <<"Price", "LivingSpace", "NumberRooms", "YearBuilt", "Locality">>,
     <<"Price", "HouseType", "NumberRooms", "YearBuilt", "Locality">>,
     <<"Price", "HouseType", "LivingSpace", "NumberRooms", "Locality">>,
     <<"Price", "HouseType", "LivingSpace", "NumberRooms", "YearBuilt">>}

\* one row per locality for some of the first NumLoc localities, each
\* priced "1.5" or "3": the tables with more than TopN localities and ties
LocalityLetters == <<"A", "B", "C", "D", "E", "F", "G", "H">>

WidePrices == <<Str(<<"1", ".", "5">>), Str(<<"3">>)>>

WideRow(cols, price, letter) ==
    [i \in 1..Len(cols) |->
        IF cols[i] \in PriceNames THEN price
        ELSE IF cols[i] \in LocalityNames THEN Str(<<letter>>)
        ELSE IF cols[i] \in HouseTypeNames THEN Str(<<"a">>)
        ELSE Num(3000)]

WideTables(cols) ==
    {LET present == SelectSeq([i \in 1..NumLoc |-> i], LAMBDA i : g[i] # 0)
     IN  Frame(cols, [j \in 1..Len(present) |->
                         WideRow(cols, WidePrices[g[present[j]]], LocalityLetters[present[j]])])
       : g \in [1..NumLoc -> 0..Len(WidePrices)]}

SnowflakeTables ==
    TablesOf(LowerCols, RichPrices, RichLocalities, MaxRows)
      \cup WideTables(LowerCols)
      \cup UNION {TablesOf(c, FewPrices, FewLocalities, MaxRows) : c \in OddSnowflakeLayouts}

LocalTables ==
    TablesOf(MixedCols, CsvPrices, RichLocalities, MaxRows)
      \cup UNION {TablesOf(c, FewPrices, FewLocalities, MaxRows) : c \in OddLocalLayouts}

(***************************************************************************)
(* app_snowflake.py: main()                                                *)
(***************************************************************************)
RequiredKeys == {"user", "password", "account", "database", "schema", "warehouse"}

Configs == {{}, RequiredKeys, RequiredKeys \ {"warehouse"}}

EmptySeries == <<>>

Init ==
    /\ variant \in {"snowflake", "local"}
    /\ config \in IF variant = "snowflake" THEN Configs ELSE {{}}
    /\ pc = "start"
    /\ src = NoFrame
    /\ loaded = NoFrame
    /\ df = NoFrame
    /\ mean_exp = EmptySeries
    /\ top_5_expensive = EmptySeries
    /\ mean_cheap = EmptySeries
    /\ top_5_cheap = EmptySeries
    /\ calls = <<>>
    /\ rendered = <<>>
    /\ errors = 0
    /\ exc = "none"

\* config = get_secrets(); if not config: return
GetSecrets ==
    /\ variant = "snowflake"
    /\ pc = "start"
    /\ calls' = Append(calls, "get_secrets")
    /\ IF config = {}
       THEN errors' = errors + 1 /\ pc' = "done"
       ELSE errors' = errors /\ pc' = "engine"
    /\ UNCHANGED <<variant, config, src, loaded, df, mean_exp, top_5_expensive,
                   mean_cheap, top_5_cheap, rendered, exc>>

\* engine_url = create_engine_url(config); engine = create_engine(engine_url)
\* config[key] of a missing key raises KeyError
CreateEngine ==
    /\ variant = "snowflake"
    /\ pc = "engine"
    /\ IF RequiredKeys \subseteq config
       THEN /\ calls' = calls \o <<"create_engine_url", "create_engine">>
            /\ pc' = "load"
            /\ exc' = exc
       ELSE /\ calls' = Append(calls, "create_engine_url")
            /\ pc' = "crashed"
            /\ exc' = "KeyError"
    /\ UNCHANGED <<variant, config, src, loaded, df, mean_exp, top_5_expensive,
                   mean_cheap, top_5_cheap, rendered, errors>>

\* df = load_data(engine); if df is None: return
LoadData ==
    /\ variant = "snowflake"
    /\ pc = "load"
    /\ calls' = Append(calls, "load_data")
    /\ \/ /\ \E t \in SnowflakeTables : src' = t /\ loaded' = t
          /\ pc' = "preprocess"
          /\ errors' = errors
       \/ /\ src' = src /\ loaded' = NoFrame
          /\ pc' = "done"
          /\ errors' = errors + 1
    /\ UNCHANGED <<variant, config, df, mean_exp, top_5_expensive,
                   mean_cheap, top_5_cheap, rendered, exc>>

\* df = preprocess_data(df)
Preprocess ==
    /\ variant = "snowflake"
    /\ pc = "preprocess"
    /\ calls' = Append(calls, "preprocess_data")
    /\ LET r == PreprocessData(loaded)
       IN  /\ loaded' = r.arg
           /\ IF r.err = "none"
              THEN df' = r.ret /\ pc' = "house_type" /\ exc' = exc
              ELSE df' = df /\ pc' = "crashed" /\ exc' = r.err
    /\ UNCHANGED <<variant, config, src, mean_exp, top_5_expensive,
                   mean_cheap, top_5_cheap, rendered, errors>>

\* A plotly express chart of the columns need of df, handed to
\* st.plotly_chart; a column name that df lacks raises ValueError.
Chart(at, need, title, next) ==
    /\ pc = at
    /\ IF HasColumns(df, need)
       THEN rendered' = Append(rendered, title) /\ pc' = next /\ exc' = exc
       ELSE rendered' = rendered /\ pc' = "crashed" /\ exc' = "ValueError"
    /\ UNCHANGED <<variant, config, src, loaded, df, mean_exp, top_5_expensive,
                   mean_cheap, top_5_cheap, errors>>

PlotHouseTypeDistribution ==
    /\ variant = "snowflake"
    /\ calls' = Append(calls, "plot_house_type_distribution")
    /\ Chart("house_type", {"HOUSETYPE"}, "House Type Distribution", "living_space")

PlotLivingSpaceVsRooms ==
    /\ variant = "snowflake"
    /\ calls' = Append(calls, "plot_living_space_vs_rooms")
    /\ Chart("living_space", {"LIVINGSPACE", "NUMBERROOMS"},
             "Living Space vs. Number of Rooms", "year_built")

PlotYearBuiltVsPrice ==
    /\ variant = "snowflake"
    /\ calls' = Append(calls, "plot_year_built_vs_price")
    /\ Chart("year_built", {"YEARBUILT", "PRICE"}, "Year Built vs. Price", "price_dist")

PlotPriceDistribution ==
    /\ variant = "snowflake"
    /\ calls' = Append(calls, "plot_price_distribution")
    /\ Chart("price_dist", {"PRICE"}, "Price Distribution", "top_expensive")

\* plot_top_expensive_localities(df)
PlotTopExpensiveLocalities ==
    /\ variant = "snowflake"
    /\ pc = "top_expensive"
    /\ calls' = Append(calls, "plot_top_expensive_localities")
    /\ LET m == MeanPricesOrRaise(df, "LOCALITY", "PRICE")
       IN  IF m.err = "none"
           THEN /\ mean_exp' = m.ret
                /\ top_5_expensive' = NLargest(m.ret, TopN)
                /\ rendered' = Append(rendered, "Top 5 Most Expensive Localities")
                /\ pc' = "top_cheap"
                /\ exc' = exc
           ELSE /\ UNCHANGED <<mean_exp, top_5_expensive, rendered>>
                /\ pc' = "crashed"
                /\ exc' = m.err
    /\ UNCHANGED <<variant, config, src, loaded, df, mean_cheap, top_5_cheap, errors>>

\* plot_top_cheap_localities(df)
PlotTopCheapLocalities ==
    /\ variant = "snowflake"
    /\ pc = "top_cheap"
    /\ calls' = Append(calls, "plot_top_cheap_localities")
    /\ LET m == MeanPricesOrRaise(df, "LOCALITY", "PRICE")
       IN  IF m.err = "none"
           THEN /\ mean_cheap' = m.ret
                /\ top_5_cheap' = NSmallest(m.ret, TopN)
                /\ rendered' = Append(rendered, "Top 5 Cheapest Localities")
                /\ pc' = "done"
                /\ exc' = exc
           ELSE /\ UNCHANGED <<mean_cheap, top_5_cheap, rendered>>
                /\ pc' = "crashed"
                /\ exc' = m.err
    /\ UNCHANGED <<variant, config, src, loaded, df, mean_exp, top_5_expensive, errors>>

(***************************************************************************)
(* app_local.py: the module-level script                                   *)
(***************************************************************************)
\* df = pd.read_csv('cleaned_house_price_switzerland.csv')
LocalReadCsv ==
    /\ variant = "local"
    /\ pc = "start"
    /\ \/ /\ \E t \in LocalTables : src' = t /\ loaded' = t
          /\ pc' = "clean"
          /\ exc' = exc
       \/ /\ UNCHANGED <<src, loaded>>
          /\ pc' = "crashed"
          /\ exc' = "FileNotFoundError"
    /\ UNCHANGED <<variant, config, df, mean_exp, top_5_expensive,
                   mean_cheap, top_5_cheap, calls, rendered, errors>>

\* df['Price'] = pd.to_numeric(df['Price'], errors='coerce').round(2)
\* df = df[df['Price'] > 0]
LocalClean ==
    /\ variant = "local"
    /\ pc = "clean"
    /\ LET r == CleanOrRaise(loaded, "Price")
       IN  /\ loaded' = r.arg
           /\ IF r.err = "none"
              THEN df' = r.ret /\ pc' = "fig1" /\ exc' = exc
              ELSE df' = df /\ pc' = "crashed" /\ exc' = r.err
    /\ UNCHANGED <<variant, config, src, mean_exp, top_5_expensive,
                   mean_cheap, top_5_cheap, calls, rendered, errors>>

LocalFig1 ==
    /\ variant = "local"
    /\ calls' = calls
    /\ Chart("fig1", {"Price"}, "Price Distribution", "fig2")

LocalFig2 ==
    /\ variant = "local"
    /\ calls' = calls
    /\ Chart("fig2", {"HouseType"}, "House Type Distribution", "fig3")

LocalFig3 ==
    /\ variant = "local"
    /\ calls' = calls
    /\ Chart("fig3", {"LivingSpace", "NumberRooms"}, "Living Space vs. Number of Rooms", "fig4")

LocalFig4 ==
    /\ variant = "local"
    /\ calls' = calls
    /\ Chart("fig4", {"YearBuilt", "Price"}, "Year Built vs. Price", "mean_prices")

\* mean_prices = df.groupby('Locality')['Price'].mean().dropna().round(2)
\* the one series both rankings of the script read
LocalMeanPrices ==
    /\ variant = "local"
    /\ pc = "mean_prices"
    /\ LET m == MeanPricesOrRaise(df, "Locality", "Price")
       IN  IF m.err = "none"
           THEN mean_exp' = m.ret /\ mean_cheap' = m.ret /\ pc' = "fig5" /\ exc' = exc
           ELSE UNCHANGED <<mean_exp, mean_cheap>> /\ pc' = "crashed" /\ exc' = m.err
    /\ UNCHANGED <<variant, config, src, loaded, df, top_5_expensive, top_5_cheap,
                   calls, rendered, errors>>

\* top_5_expensive = mean_prices.nlargest(5).reset_index() and its bar chart
LocalFig5 ==
    /\ variant = "local"
    /\ pc = "fig5"
    /\ top_5_expensive' = NLargest(mean_exp, TopN)
    /\ rendered' = Append(rendered, "Top 5 Most Expensive Localities")
    /\ pc' = "fig6"
    /\ UNCHANGED <<variant, config, src, loaded, df, mean_exp, mean_cheap, top_5_cheap,
                   calls, errors, exc>>

\* top_5_cheap = mean_prices.nsmallest(5).reset_index() and its bar chart
LocalFig6 ==
    /\ variant = "local"
    /\ pc = "fig6"
    /\ top_5_cheap' = NSmallest(mean_cheap, TopN)
    /\ rendered' = Append(rendered, "Top 5 Cheapest Localities")
    /\ pc' = "done"
    /\ UNCHANGED <<variant, config, src, loaded, df, mean_exp, mean_cheap, top_5_expensive,
                   calls, errors, exc>>

Next ==
    \/ GetSecrets
    \/ CreateEngine
    \/ LoadData
    \/ Preprocess
    \/ PlotHouseTypeDistribution
    \/ PlotLivingSpaceVsRooms
    \/ PlotYearBuiltVsPrice
    \/ PlotPriceDistribution
    \/ PlotTopExpensiveLocalities
    \/ PlotTopCheapLocalities
    \/ LocalReadCsv
    \/ LocalClean
    \/ LocalFig1
    \/ LocalFig2
    \/ LocalFig3
    \/ LocalFig4
    \/ LocalMeanPrices
    \/ LocalFig5
    \/ LocalFig6

Spec == Init /\ [][Next]_vars

(***************************************************************************)
(* Vocabulary of the properties.                                           *)
(***************************************************************************)
Range(q) == {q[i] : i \in 1..Len(q)}

Min(a, b) == IF a < b THEN a ELSE b

\* the cleaning statements have completed and df is their result
Cleaned == df.kind = "frame"

\* preprocess_data has been called (and has returned or raised)
Preprocessed == variant = "snowflake" /\ "preprocess_data" \in Range(calls)

\* the source column names the cleaner of the running program reads
ReadPriceNames == IF variant = "snowflake" THEN {"price", "PRICE"} ELSE {"Price"}

SrcPriceCol == CHOOSE i \in 1..Len(src.cols) : src.cols[i] \in ReadPriceNames

\* the names of the price and locality columns of the cleaned table
CleanPriceName == IF variant = "snowflake" THEN "PRICE" ELSE "Price"

CleanLocalityName == IF variant = "snowflake" THEN "LOCALITY" ELSE "Locality"

\* the price of source row i after numeric coercion, and after rounding too
Coerced(i) == ToNumeric(src.rows[i][SrcPriceCol])

CoercedRounded(i) == Round2(ToNumeric(src.rows[i][SrcPriceCol]))

IsPositive(c) == c.k = "num" /\ c.n > 0

StrictlyIncreasing(q) == \A i, j \in 1..Len(q) : i < j => q[i] < q[j]

\* the all-lowercase source names the normalizer recognises, each with the
\* name it is given
LowerToCanonical ==
    {<<"price", "PRICE">>, <<"housetype", "HOUSETYPE">>, <<"size", "SIZE">>,
     <<"lotsize", "LOTSIZE">>, <<"balcony", "BALCONY">>,
     <<"livingspace", "LIVINGSPACE">>, <<"numberrooms", "NUMBERROOMS">>,
     <<"yearbuilt", "YEARBUILT">>, <<"locality", "LOCALITY">>,
     <<"postalcode", "POSTALCODE">>}

CanonicalNames == {pr[2] : pr \in LowerToCanonical}

ExpectedName(c) ==
    IF \E pr \in LowerToCanonical : pr[1] = c
    THEN (CHOOSE pr \in LowerToCanonical : pr[1] = c)[2]
    ELSE c

(***************************************************************************)
(* C1  Cleaner filter.                                                     *)
(***************************************************************************)
\* C1 as stated: a source row is in the cleaned output if and only if its
\* price after numeric coercion is a number strictly greater than zero;
\* every cleaned price is > 0 and the kept rows keep their input order.
C1_FilterOnCoercedPrice ==
    Cleaned =>
        /\ \A i \in 1..Len(src.rows) : (i \in Range(df.index)) <=> IsPositive(Coerced(i))
        /\ \A j \in 1..Len(df.rows) : IsPositive(df.rows[j][ColOf(df, CleanPriceName)])
        /\ StrictlyIncreasing(df.index)

\* C1 amended: a source row is in the cleaned output if and only if its
\* price after numeric coercion AND rounding to 2 decimals is a number
\* strictly greater than zero; every cleaned price is > 0, is the rounded
\* coerced price of its source row, and the kept rows keep their input order.
C1_FilterOnRoundedPrice ==
    Cleaned =>
        /\ \A i \in 1..Len(src.rows) : (i \in Range(df.index)) <=> IsPositive(CoercedRounded(i))
        /\ \A j \in 1..Len(df.rows) :
              /\ IsPositive(df.rows[j][ColOf(df, CleanPriceName)])
              /\ df.rows[j][ColOf(df, CleanPriceName)] = CoercedRounded(df.index[j])
        /\ StrictlyIncreasing(df.index)

\* a price of 0.004 was dropped and the row after it kept
C1_Witness ==
    /\ Cleaned
    /\ Len(src.rows) = 2
    /\ Coerced(1) = Num(4)
    /\ df.index = <<2>>

C3_AnyCasingIsRead ==
    LET cased == {i \in 1..Len(src.cols) : src.cols[i] \in PriceNames}
        p == CHOOSE i \in cased : TRUE
    IN  (Preprocessed /\ Cardinality(cased) = 1) =>
            /\ Cleaned
            /\ \A i \in 1..Len(src.rows) :
                  (i \in Range(df.index)) <=> IsPositive(Round2(ToNumeric(src.rows[i][p])))

(***************************************************************************)
(* C4  Normalizing and cleaning never fail on a row-oriented table.        *)
(***************************************************************************)
\* C4 as stated: preprocess_data completes on every row/column-shaped
\* table; when the price column is missing every row is filtered out.
C4_PreprocessNeverFails ==
    Preprocessed =>
        /\ Cleaned
        /\ exc \notin {"KeyError", "TypeError"} \/ calls[Len(calls)] # "preprocess_data"
        /\ (\A i \in 1..Len(src.cols) : src.cols[i] \notin PriceNames) => df.rows = <<>>

(***************************************************************************)
(* C5  Cleaner idempotence.                                                *)
(***************************************************************************)
\* C5: cleaning the cleaned table again (coerce, round, keep price > 0)
\* completes and returns exactly the cleaned table: same columns, same
\* rows, same row labels, same prices.
C5_CleanIdempotent ==
    Cleaned =>
        LET again == IF variant = "snowflake" THEN PreprocessData(df)
                     ELSE CleanOrRaise(df, "Price")
        IN  again.err = "none" /\ again.ret = df /\ again.arg = df

\* a table with a price that rounding changed (0.125) and a dropped row
C5_Witness ==
    /\ Cleaned
    /\ Len(src.rows) = 2
    /\ Len(df.rows) = 1
    /\ \E i \in 1..2 : Coerced(i) = Num(125) /\ i \in Range(df.index)

(***************************************************************************)
(* C6  Aggregator mean.                                                    *)
(***************************************************************************)
\* mean_prices has been computed for the most expensive ranking
AggregatedExp ==
    \/ variant = "snowflake" /\ "Top 5 Most Expensive Localities" \in Range(rendered)
    \/ variant = "local" /\ pc \in {"fig5", "fig6", "done"}

\* both rankings have been computed
Ranked == "Top 5 Cheapest Localities" \in Range(rendered)

\* the cleaned rows whose locality is exactly the string key
RowsOfLocality(key) ==
    {i \in 1..Len(df.rows) : df.rows[i][ColOf(df, CleanLocalityName)] = Str(key)}

CleanPrice(i) == df.rows[i][ColOf(df, CleanPriceName)].n

RECURSIVE PriceSum(_)
PriceSum(I) ==
    IF I = {} THEN 0
    ELSE LET i == CHOOSE j \in I : TRUE
         IN  CleanPrice(i) + PriceSum(I \ {i})

\* ser holds one entry per distinct locality string of the cleaned rows,
\* each the mean of exactly that locality's prices to the nearest
\* hundredth, within the group's minimum and maximum
IsAggregateOfCleaned(ser) ==
    /\ {ser[g].LOCALITY : g \in 1..Len(ser)}
         = {df.rows[i][ColOf(df, CleanLocalityName)].s :
              i \in {j \in 1..Len(df.rows) : df.rows[j][ColOf(df, CleanLocalityName)].k = "str"}}
    /\ \A g, h \in 1..Len(ser) : g # h => ser[g].LOCALITY # ser[h].LOCALITY
    /\ \A g \in 1..Len(ser) :
          LET I == RowsOfLocality(ser[g].LOCALITY)
              m == ser[g].PRICE
              cnt == Cardinality(I)
              diff == m * cnt - PriceSum(I)
          IN  /\ cnt > 0
              /\ m % 10 = 0
              /\ 2 * diff <= 10 * cnt /\ 2 * (0 - diff) <= 10 * cnt
              /\ \E i \in I : CleanPrice(i) <= m
              /\ \E i \in I : CleanPrice(i) >= m

\* C6: the aggregate holds exactly one entry per distinct locality string
\* of the cleaned rows (exact match), each entry's meanPrice is
\* sum(price)/count over exactly that locality's cleaned rows rounded to 2
\* decimals, and lies between the group's minimum and maximum price.
C6_MeanPerLocality ==
    /\ AggregatedExp => IsAggregateOfCleaned(mean_exp)
    /\ Ranked => IsAggregateOfCleaned(mean_cheap)

\* a group of two different prices whose mean had to be rounded (0.01 and
\* 0.12 give 0.065, kept as 0.06)
C6_Witness ==
    /\ AggregatedExp
    /\ \E g \in 1..Len(mean_exp) :
          LET I == RowsOfLocality(mean_exp[g].LOCALITY)
          IN  /\ Cardinality(I) = 2
              /\ mean_exp[g].PRICE * 2 # PriceSum(I)
              /\ \E i, j \in I : CleanPrice(i) < CleanPrice(j)

(***************************************************************************)
(* C7  Ranker size and dominance.                                          *)
(***************************************************************************)
\* top is n entries of ser, no entry twice
IsSelection(top, ser, n) ==
    /\ Len(top) = Min(n, Len(ser))
    /\ Range(top) \subseteq Range(ser)
    /\ \A i, j \in 1..Len(top) : i # j => top[i].LOCALITY # top[j].LOCALITY

\* C7: the largest ranking has exactly min(N, number of aggregates) entries
\* sorted by meanPrice descending, each >= every aggregate not returned;
\* the smallest ranking likewise ascending, each <= every aggregate not
\* returned; an empty cleaned table gives empty aggregates and rankings.
C7_RankSizeAndDominance ==
    Ranked =>
        /\ IsSelection(top_5_expensive, mean_exp, TopN)
        /\ \A i, j \in 1..Len(top_5_expensive) :
              i < j => top_5_expensive[i].PRICE >= top_5_expensive[j].PRICE
        /\ \A r \in Range(top_5_expensive) : \A a \in Range(mean_exp) \ Range(top_5_expensive) :
              r.PRICE >= a.PRICE
        /\ IsSelection(top_5_cheap, mean_cheap, TopN)
        /\ \A i, j \in 1..Len(top_5_cheap) :
              i < j => top_5_cheap[i].PRICE <= top_5_cheap[j].PRICE
        /\ \A r \in Range(top_5_cheap) : \A a \in Range(mean_cheap) \ Range(top_5_cheap) :
              r.PRICE <= a.PRICE
        /\ df.rows = <<>> =>
              mean_exp = <<>> /\ mean_cheap = <<>> /\ top_5_expensive = <<>> /\ top_5_cheap = <<>>

\* more than N localities, of different means: some aggregate is left out
\* of each ranking
C7_Witness ==
    /\ Ranked
    /\ Len(mean_exp) > TopN
    /\ Len(top_5_expensive) = TopN
    /\ top_5_expensive[1].PRICE > top_5_expensive[TopN].PRICE
    /\ \E a \in Range(mean_exp) \ Range(top_5_expensive) : a.PRICE < top_5_expensive[1].PRICE
    /\ \E a \in Range(mean_cheap) \ Range(top_5_cheap) : a.PRICE > top_5_cheap[1].PRICE

(***************************************************************************)
(* C8  Purity of the stages.                                               *)
(***************************************************************************)
\* the cleaned table as the source determines it
ExpectedCleaned ==
    LET kept == SelectSeq([i \in 1..Len(src.rows) |-> i], LAMBDA i : IsPositive(CoercedRounded(i)))
    IN  [kind |-> "frame",
         cols |-> [c \in 1..Len(src.cols) |-> ExpectedName(src.cols[c])],
         index |-> kept,
         rows |-> [j \in 1..Len(kept) |->
                     [src.rows[kept[j]] EXCEPT ![SrcPriceCol] = CoercedRounded(kept[j])]]]

PosIn(ser, loc) == CHOOSE i \in 1..Len(ser) : ser[i].LOCALITY = loc

\* equal means keep the order of ser, and a tie at the cut is decided for
\* the entries that come first in ser
TiesInSeriesOrder(top, ser) ==
    /\ \A i, j \in 1..Len(top) :
          (i < j /\ top[i].PRICE = top[j].PRICE) =>
              PosIn(ser, top[i].LOCALITY) < PosIn(ser, top[j].LOCALITY)
    /\ \A r \in Range(top) : \A a \in Range(ser) \ Range(top) :
          r.PRICE = a.PRICE => PosIn(ser, r.LOCALITY) < PosIn(ser, a.LOCALITY)

\* C9: in both rankings two returned aggregates of equal meanPrice appear
\* in their order in the Aggregator's output, and when a tie straddles the
\* N-th position the tied entries that come first in that output are the
\* ones returned.
C9_StableTies ==
    Ranked =>
        /\ TiesInSeriesOrder(top_5_expensive, mean_exp)
        /\ TiesInSeriesOrder(top_5_cheap, mean_cheap)

\* a tie straddles the N-th position of the largest ranking, and two tied
\* entries are returned
C9_Witness ==
    /\ Ranked
    /\ Len(mean_exp) > TopN
    /\ \E a \in Range(mean_exp) \ Range(top_5_expensive) : a.PRICE = top_5_expensive[TopN].PRICE
    /\ top_5_expensive[TopN - 1].PRICE = top_5_expensive[TopN].PRICE
    /\ top_5_expensive[1].PRICE > top_5_expensive[TopN].PRICE

(***************************************************************************)
(* C10  Guarded start-up of main().                                        *)
(***************************************************************************)
AllCalls ==
    <<"get_secrets", "create_engine_url", "create_engine", "load_data", "preprocess_data",
      "plot_house_type_distribution", "plot_living_space_vs_rooms",
      "plot_year_built_vs_price", "plot_price_distribution",
      "plot_top_expensive_localities", "plot_top_cheap_localities">>

SixCharts ==
    <<"House Type Distribution", "Living Space vs. Number of Rooms", "Year Built vs. Price",
      "Price Distribution", "Top 5 Most Expensive Localities", "Top 5 Cheapest Localities">>

\* C10 as stated, for a run of main(): nothing is preprocessed or rendered
\* unless the secrets were non-empty and load_data returned a table; with
\* empty secrets one error is reported and nothing else is called; when
\* loading raises, one error is reported and main returns without
\* rendering; otherwise main ends having taken the steps secrets, engine,
\* load, preprocess and the six charts, in that order, each exactly once.
C10_GuardedStartup ==
    variant = "snowflake" =>
        /\ (Preprocessed \/ rendered # <<>>) => (config # {} /\ src.kind = "frame")
        /\ (config = {} /\ pc # "start") =>
              pc = "done" /\ errors = 1 /\ calls = <<"get_secrets">> /\ rendered = <<>>
        /\ (pc = "done" /\ config # {} /\ src.kind = "none") =>
              /\ errors = 1 /\ loaded = NoFrame /\ rendered = <<>>
              /\ calls = SubSeq(AllCalls, 1, 4)
        /\ (pc \in {"done", "crashed"} /\ config # {} /\ src.kind = "frame") =>
              pc = "done" /\ calls = AllCalls /\ rendered = SixCharts

====
